---- MODULE Spec2Model ----
(***************************************************************************)
(* A model of the document vector store: VectorService (the index, the     *)
(* metadata array and the content array, in memory and as three files on   *)
(* disk), its ingestion and search operations, and the reranking step of   *)
(* ContextService.                                                         *)
(*                                                                         *)
(* Texts are abstracted to windows of a page: the text of the characters   *)
(* [start, end) of a page of `len` characters is the tuple                 *)
(* <<len, start, end>>.  The external collaborators (the PDF parser, the   *)
(* embedding model, FAISS, pickle, the reranking service) are modelled by  *)
(* what the code relies on; where a library's behaviour is not fixed by    *)
(* the code, the model chooses among its possible outcomes.                *)
(***************************************************************************)
EXTENDS Integers, Sequences, FiniteSets, TLC

VARIABLES
    alive,      \* TRUE while a VectorService instance exists in the process
    index,      \* self.index: the vectors of the FAISS index, in insertion order
    metadata,   \* self.metadata: one {source, page_number} per chunk
    content,    \* self.content: the text of each chunk
    disk,       \* the files index.faiss, metadata.pkl and content.pkl
    last,       \* the last call on the service: its inputs, outcome and the work done
    nfaults,    \* how many calls were cut short while saving or by the death of the process
    rr,         \* the last reRanker call: its inputs, the request sent and the output
    cc,         \* the last chunk_compressor call: its inputs, the request sent and the output
    ans,        \* the last RAGService.answer call: its inputs, the stages it ran, its outcome
    th          \* the process_store_pdf calls running in threads: where each one stands

vars == <<alive, index, metadata, content, disk, last, nfaults, rr, cc, ans, th>>

(***************************************************************************)
(* Bounds of the model.                                                    *)
(***************************************************************************)
MaxStore == 3
MaxFaults == 1
MaxK == 2
MaxResults == 3
MaxTopN == 4

(***************************************************************************)
(* Program constants.                                                      *)
(***************************************************************************)
ChunkSize == 1000
ChunkOverlap == 200
NoMatch == -1

\* The dimension of the embedding model (384 for all-MiniLM-L6-v2), scaled.
EmbeddingDim == 2

Filenames == <<"a.pdf", "b.pdf">>
FilenameSet == {Filenames[i] : i \in 1..Len(Filenames)}
FileId(f) == CHOOSE i \in 1..Len(Filenames) : Filenames[i] = f

\* What the parser may read from a file, as the lengths of the page texts: no
\* page at all, only empty pages, a page that fits one chunk, two such pages,
\* and a page that needs two overlapping chunks followed by an empty page.
Docs == {<<>>, <<0>>, <<0, 0>>, <<700>>, <<700, 700>>, <<1500, 0>>}

\* The queries: short texts.
Queries == {<<700, 0, 700>>, <<1000, 0, 1000>>}

RECURSIVE SumSeq(_)
SumSeq(s) == IF s = <<>> THEN 0 ELSE Head(s) + SumSeq(Tail(s))

RECURSIVE Flatten(_)
Flatten(ss) == IF ss = <<>> THEN <<>> ELSE Head(ss) \o Flatten(Tail(ss))

(***************************************************************************)
(* The document parser (PdfReader, page.extract_text) and the page list    *)
(* process_store_pdf builds from it.                                       *)
(***************************************************************************)
PageText(len) == <<len, 0, len>>

all_pages_of(filename, pages) ==
    [i \in 1..Len(pages) |->
        [page_content |-> PageText(pages[i]),
         metadata |-> [source |-> filename, page_number |-> i]]]

(***************************************************************************)
(* RecursiveCharacterTextSplitter(chunk_size, chunk_overlap): overlapping  *)
(* windows of at most ChunkSize characters, each keeping its page's        *)
(* metadata; an empty page yields no chunk.                                *)
(***************************************************************************)
RECURSIVE Windows(_, _)
Windows(len, start) ==
    IF len = 0 THEN <<>>
    ELSE IF start + ChunkSize >= len THEN << <<len, start, len>> >>
    ELSE << <<len, start, start + ChunkSize>> >>
            \o Windows(len, start + ChunkSize - ChunkOverlap)

split_page(page) ==
    LET ws == Windows(page.page_content[1], 0) IN
    [i \in 1..Len(ws) |-> [page_content |-> ws[i], metadata |-> page.metadata]]

split_documents(all_pages) ==
    Flatten([i \in 1..Len(all_pages) |-> split_page(all_pages[i])])

NChunks(pages) == Len(split_documents(all_pages_of("a.pdf", pages)))

(***************************************************************************)
(* The embedding model and faiss.normalize_L2.  An embedding has one       *)
(* non-zero, positive component, so its L2 norm is the sum of its          *)
(* components and the normalised vector is a unit axis vector.             *)
(***************************************************************************)
encode_one(text) ==
    [i \in 1..EmbeddingDim |->
        IF i = (((text[2] + text[3]) \div 100) % EmbeddingDim) + 1
        THEN (text[3] - text[2]) \div 100 ELSE 0]

encode(texts) == [i \in 1..Len(texts) |-> encode_one(texts[i])]

normalize_one(v) ==
    LET norm == SumSeq(v) IN
    IF norm = 0 THEN v ELSE [i \in 1..Len(v) |-> v[i] \div norm]

normalize_L2(vs) == [i \in 1..Len(vs) |-> normalize_one(vs[i])]

InnerProduct(a, b) == SumSeq([i \in 1..Len(a) |-> a[i] * b[i]])

(***************************************************************************)
(* The files.  A file is absent or holds a stream of integers.             *)
(* faiss.write_index writes the dimension, the vector count and the        *)
(* vectors' components; pickle.dump writes the entry count and the         *)
(* entries.  A reader rejects a stream whose length disagrees with its     *)
(* header (a truncated file).                                              *)
(***************************************************************************)
Absent == [exists |-> FALSE, bytes |-> <<>>]
File(bytes) == [exists |-> TRUE, bytes |-> bytes]

\* open(path, 'wb') truncates the file; a write that stops before its first
\* byte leaves it empty.
Torn == File(<<>>)

EmptyDisk == [index |-> Absent, metadata |-> Absent, content |-> Absent]

write_index(xb) == <<EmbeddingDim, Len(xb)>> \o Flatten(xb)

index_readable(bytes) ==
    /\ Len(bytes) >= 2
    /\ bytes[1] >= 1
    /\ bytes[2] >= 0
    /\ Len(bytes) = 2 + bytes[1] * bytes[2]

read_index(bytes) ==
    LET d == bytes[1] IN
    [i \in 1..bytes[2] |-> [j \in 1..d |-> bytes[2 + (i - 1) * d + j]]]

dump_metadata(ms) ==
    <<Len(ms)>> \o Flatten([i \in 1..Len(ms) |-> <<FileId(ms[i].source), ms[i].page_number>>])

metadata_readable(bytes) ==
    /\ Len(bytes) >= 1
    /\ bytes[1] >= 0
    /\ Len(bytes) = 1 + 2 * bytes[1]

load_metadata(bytes) ==
    [i \in 1..bytes[1] |->
        [source |-> Filenames[bytes[2 * i]], page_number |-> bytes[2 * i + 1]]]

dump_content(cs) == <<Len(cs)>> \o Flatten(cs)

content_readable(bytes) ==
    /\ Len(bytes) >= 1
    /\ bytes[1] >= 0
    /\ Len(bytes) = 1 + 3 * bytes[1]

load_content(bytes) ==
    [i \in 1..bytes[1] |-> <<bytes[3 * i - 1], bytes[3 * i], bytes[3 * i + 1]>>]

(***************************************************************************)
(* The in-memory stores and the disk, as one value: st.index, st.metadata, *)
(* st.content, st.disk.                                                    *)
(***************************************************************************)
Store(ix, ms, cs, dk) == [index |-> ix, metadata |-> ms, content |-> cs, disk |-> dk]

\* _initialise_empty_index: an empty index of the model's dimension.
initialise_empty_index == <<>>

(***************************************************************************)
(* _load_data: each artifact is loaded if its file exists and replaced by  *)
(* an empty one otherwise, independently of the other two.  An unreadable  *)
(* file makes the library raise, and the constructor with it.              *)
(***************************************************************************)
load_raises(dk) ==
    \/ dk.index.exists /\ ~index_readable(dk.index.bytes)
    \/ dk.metadata.exists /\ ~metadata_readable(dk.metadata.bytes)
    \/ dk.content.exists /\ ~content_readable(dk.content.bytes)

load_data(dk) ==
    [index |-> IF dk.index.exists THEN read_index(dk.index.bytes)
               ELSE initialise_empty_index,
     metadata |-> IF dk.metadata.exists THEN load_metadata(dk.metadata.bytes)
                  ELSE <<>>,
     content |-> IF dk.content.exists THEN load_content(dk.content.bytes)
                 ELSE <<>>,
     disk |-> dk]

\* A save that forgets the metadata file.
save_data_without_metadata(st, fault) ==
    [st EXCEPT !.disk =
        [index |-> File(write_index(st.index)),
         content |-> File(dump_content(st.content)),
         metadata |-> st.disk.metadata]]

(***************************************************************************)
(* _save_data: three writes in the order index, content, metadata.  A      *)
(* write can fail (raise) or the process can die at it; the file written   *)
(* at that moment is untouched or left truncated, the files written before *)
(* it are complete and those after it are as they were.                    *)
(***************************************************************************)
SaveStages == <<"write_index", "write_content", "write_meta">>

StageNo(s) == CHOOSE i \in 1..Len(SaveStages) : SaveStages[i] = s

IsSaveStage(s) == \E i \in 1..Len(SaveStages) : SaveStages[i] = s

write_file(old, bytes, n, fault) ==
    IF ~IsSaveStage(fault.at) \/ n < StageNo(fault.at) THEN File(bytes)
    ELSE IF n = StageNo(fault.at) /\ fault.torn THEN Torn
    ELSE old

save_data(st, fault) ==
    [st EXCEPT !.disk =
        [index |-> write_file(st.disk.index, write_index(st.index), 1, fault),
         content |-> write_file(st.disk.content, dump_content(st.content), 2, fault),
         metadata |-> write_file(st.disk.metadata, dump_metadata(st.metadata), 3, fault)]]

(***************************************************************************)
(* Faults: where a call stops and how.  "raise": the statement raises and  *)
(* the instance lives on; "crash": the process dies there.  `torn` says    *)
(* whether a write that stops has already truncated its file.              *)
(***************************************************************************)
NoFault == [at |-> "none", how |-> "none", torn |-> FALSE]

Faults ==
    {NoFault}
    \cup [at : {"parse", "split", "encode", "normalize"}, how : {"raise"}, torn : {FALSE}]
    \cup [at : {"parse"}, how : {"crash"}, torn : {FALSE}]
    \cup [at : {SaveStages[i] : i \in 1..Len(SaveStages)},
          how : {"raise", "crash"}, torn : BOOLEAN]

\* The faults that cut a call short while it saves, or kill the process.
Interrupts(fault) == fault.how = "crash" \/ IsSaveStage(fault.at)

\* The outcomes of a call.
DuplicateError == "ValueError: file is already processed"
ParseError == "RuntimeError: Error opening the pdf"
LibraryError == "error raised by a library"
SaveError == "OSError"
StateError == "IndexError"
IndexEmptyMsg == "The index is empty please upload a document first"

\* The result of a call on the service: the stores and the disk after it, how
\* it ended, which collaborators it used, and what it returned.
Result(st, outcome, work, ret) ==
    [st |-> st, outcome |-> outcome, work |-> work, ret |-> ret]

None == [type |-> "None", error |-> "", items |-> <<>>]

\* A statement that stops at a fault: the process dies, or the error propagates.
Stop(st, fault, error, work) ==
    Result(st, IF fault.how = "crash" THEN "crash" ELSE error, work, None)

\* A duplicate check that looks only at the most recent chunk.
already_processed_last_only(ms, filename) ==
    Len(ms) > 0 /\ ms[Len(ms)].source = filename

(***************************************************************************)
(* process_store_pdf, line 74: the duplicate check over the metadata.      *)
(***************************************************************************)
already_processed(ms, filename) ==
    \E i \in 1..Len(ms) : ms[i].source = filename

(***************************************************************************)
(* process_store_pdf, lines 103-105: the batch is added to the index, the  *)
(* metadata and the content.                                               *)
(***************************************************************************)
add_batch(st, embeddings, chunk_metadata, chunk_text) ==
    [st EXCEPT !.index = @ \o embeddings,
               !.metadata = @ \o chunk_metadata,
               !.content = @ \o chunk_text]

\* An ingestion that extends the metadata and the content as soon as the
\* chunks are cut, before they are embedded.
process_store_pdf_eager(st, filename, pages, fault, emptyRaises) ==
    LET chunks == split_documents(all_pages_of(filename, pages))
        chunk_text == [i \in 1..Len(chunks) |-> chunks[i].page_content]
        chunk_metadata == [i \in 1..Len(chunks) |-> chunks[i].metadata]
        extended == [st EXCEPT !.metadata = @ \o chunk_metadata,
                               !.content = @ \o chunk_text]
        added == [extended EXCEPT !.index = @ \o normalize_L2(encode(chunk_text))]
    IN
    IF \E i \in 1..Len(st.metadata) : st.metadata[i].source = filename
    THEN Result(st, DuplicateError, {}, None)
    ELSE IF fault.at = "parse"
    THEN Stop(st, fault, ParseError, {"parse"})
    ELSE IF pages = <<>>
    THEN Result(st, ParseError, {"parse"}, None)
    ELSE IF fault.at = "split"
    THEN Stop(st, fault, LibraryError, {"parse", "split"})
    ELSE IF fault.at = "encode"
    THEN Stop(extended, fault, LibraryError, {"parse", "split", "encode"})
    ELSE IF fault.at = "normalize" \/ (chunks = <<>> /\ emptyRaises)
    THEN Result(extended, LibraryError, {"parse", "split", "encode", "normalize"}, None)
    ELSE IF IsSaveStage(fault.at)
    THEN Stop(save_data(added, fault), fault, SaveError,
              {"parse", "split", "encode", "normalize", "add", "save"})
    ELSE Result(save_data(added, fault), "ok",
                {"parse", "split", "encode", "normalize", "add", "save"}, None)

(***************************************************************************)
(* process_store_pdf(pdf_file_path, filename).  `pages` is what the parser *)
(* reads from the file, `fault` where the call stops (if it does), and     *)
(* `emptyRaises` whether the embedding and index libraries reject an empty *)
(* batch, which the code does not decide.                                  *)
(***************************************************************************)
process_store_pdf(st, filename, pages, fault, emptyRaises) ==
    LET all_pages == all_pages_of(filename, pages)
        chunks == split_documents(all_pages)
        chunk_text == [i \in 1..Len(chunks) |-> chunks[i].page_content]
        chunk_metadata == [i \in 1..Len(chunks) |-> chunks[i].metadata]
        embeddings_np == normalize_L2(encode(chunk_text))
        added == add_batch(st, embeddings_np, chunk_metadata, chunk_text)
    IN
    IF already_processed(st.metadata, filename)
    THEN Result(st, DuplicateError, {}, None)
    ELSE IF fault.at = "parse"
    THEN Stop(st, fault, ParseError, {"parse"})
    ELSE IF all_pages = <<>>
    THEN Result(st, ParseError, {"parse"}, None)
    ELSE IF fault.at = "split"
    THEN Stop(st, fault, LibraryError, {"parse", "split"})
    ELSE IF fault.at = "encode"
    THEN Stop(st, fault, LibraryError, {"parse", "split", "encode"})
    ELSE IF fault.at = "normalize" \/ (chunks = <<>> /\ emptyRaises)
    THEN Result(st, LibraryError, {"parse", "split", "encode", "normalize"}, None)
    ELSE IF IsSaveStage(fault.at)
    THEN Stop(save_data(added, fault), fault, SaveError,
              {"parse", "split", "encode", "normalize", "add", "save"})
    ELSE Result(save_data(added, fault), "ok",
                {"parse", "split", "encode", "normalize", "add", "save"}, None)

(***************************************************************************)
(* index.search(query, k): the k nearest vectors by inner product, best    *)
(* first (ties by position), as 0-based positions with their scores; when  *)
(* the index holds fewer than k vectors the rest is NoMatch.               *)
(***************************************************************************)
Best(xb, q, ids) ==
    CHOOSE i \in ids : \A j \in ids :
        \/ InnerProduct(xb[i], q) > InnerProduct(xb[j], q)
        \/ InnerProduct(xb[i], q) = InnerProduct(xb[j], q) /\ i <= j

RECURSIVE Nearest(_, _, _, _)
Nearest(xb, q, ids, k) ==
    IF k = 0 THEN <<>>
    ELSE IF ids = {} THEN <<[idx |-> NoMatch, distance |-> 0]>> \o Nearest(xb, q, ids, k - 1)
    ELSE LET b == Best(xb, q, ids) IN
         <<[idx |-> b - 1, distance |-> InnerProduct(xb[b], q)]>>
            \o Nearest(xb, q, ids \ {b}, k - 1)

index_search(xb, q, k) == Nearest(xb, q, 1..Len(xb), k)

\* An emptiness test on the metadata array instead of the index.
is_index_empty_by_metadata(st) == Len(st.metadata) = 0

(***************************************************************************)
(* search(query, k).  A hit is kept when it is not NoMatch and lies within *)
(* the metadata; its content is read at the same position, which raises    *)
(* when the content array is shorter.                                      *)
(***************************************************************************)
is_index_empty(st) == Len(st.index) = 0

Kept(st, hits) == SelectSeq(hits, LAMBDA h : h.idx /= NoMatch /\ h.idx < Len(st.metadata))

\* A search that injects the content into the stored metadata entry itself.
search_in_place(st, query, k) ==
    LET q == normalize_L2(encode(<<query>>))[1]
        hits == Kept(st, index_search(st.index, q, k))
        work == {"encode", "normalize", "index.search"}
        touched == {hits[i].idx + 1 : i \in 1..Len(hits)}
        written == [st EXCEPT !.metadata =
                      [j \in 1..Len(st.metadata) |->
                         IF j \in touched
                         THEN [source |-> st.metadata[j].source,
                               page_number |-> st.metadata[j].page_number,
                               content |-> st.content[j]]
                         ELSE st.metadata[j]]]
    IN
    IF is_index_empty(st)
    THEN Result(st, "ok", {}, [type |-> "dict", error |-> IndexEmptyMsg, items |-> <<>>])
    ELSE IF \E i \in 1..Len(hits) : hits[i].idx >= Len(st.content)
    THEN Result(st, StateError, work, None)
    ELSE Result(written, "ok", work,
                [type |-> "list", error |-> "",
                 items |-> [i \in 1..Len(hits) |->
                    [metadata |-> written.metadata[hits[i].idx + 1],
                     similarity |-> hits[i].distance]]])

search(st, query, k) ==
    LET q == normalize_L2(encode(<<query>>))[1]
        hits == Kept(st, index_search(st.index, q, k))
        work == {"encode", "normalize", "index.search"}
    IN
    IF is_index_empty(st)
    THEN Result(st, "ok", {}, [type |-> "dict", error |-> IndexEmptyMsg, items |-> <<>>])
    ELSE IF \E i \in 1..Len(hits) : hits[i].idx >= Len(st.content)
    THEN Result(st, StateError, work, None)
    ELSE Result(st, "ok", work,
                [type |-> "list", error |-> "",
                 items |-> [i \in 1..Len(hits) |->
                    [metadata |-> [source |-> st.metadata[hits[i].idx + 1].source,
                                   page_number |-> st.metadata[hits[i].idx + 1].page_number,
                                   content |-> st.content[hits[i].idx + 1]],
                     similarity |-> hits[i].distance]]])

(***************************************************************************)
(* The state machine of one data directory and the process serving it.     *)
(***************************************************************************)
Mem == Store(index, metadata, content, disk)

NoMem == Store(<<>>, <<>>, <<>>, disk)

DocKind(pages) ==
    IF pages = <<>> THEN "no pages"
    ELSE IF \A i \in 1..Len(pages) : pages[i] = 0 THEN "only empty pages"
    ELSE "text"

Call(op, kind, fault, dup, query, k, r) ==
    [op |-> op, kind |-> kind, faulted |-> (fault /= NoFault), dup |-> dup,
     query |-> query, k |-> k,
     outcome |-> r.outcome, work |-> r.work, ret |-> r.ret]

NoRerank == [chunks_list |-> <<>>, k |-> 0, response |-> <<>>,
             request |-> [documents |-> <<>>, top_n |-> 0],
             outcome |-> "none", results |-> <<>>]

NoCompress == [chunks |-> <<>>, outputs |-> <<>>,
               request |-> [documents |-> <<>>, query |-> <<>>],
               outcome |-> "none", context |-> <<>>]

NoAnswer == [query |-> <<>>, outcome |-> "none", trace |-> <<>>]

NoThreads == <<>>

\* VectorService(data_path) on a data directory that does not exist yet.
Init ==
    /\ alive = TRUE
    /\ index = initialise_empty_index
    /\ metadata = <<>>
    /\ content = <<>>
    /\ disk = EmptyDisk
    /\ last = Call("__init__", "", NoFault, FALSE, <<>>, 0,
                   Result(NoMem, "ok", {}, None))
    /\ nfaults = 0
    /\ rr = NoRerank
    /\ cc = NoCompress
    /\ ans = NoAnswer
    /\ th = NoThreads

\* The process is started (again): VectorService(data_path) loads the files.
Construct ==
    /\ IF load_raises(disk)
       THEN /\ alive' = FALSE
            /\ index' = <<>>
            /\ metadata' = <<>>
            /\ content' = <<>>
            /\ last' = Call("__init__", "", NoFault, FALSE, <<>>, 0,
                            Result(NoMem, LibraryError, {}, None))
       ELSE /\ alive' = TRUE
            /\ index' = load_data(disk).index
            /\ metadata' = load_data(disk).metadata
            /\ content' = load_data(disk).content
            /\ last' = Call("__init__", "", NoFault, FALSE, <<>>, 0,
                            Result(NoMem, "ok", {}, None))
    /\ UNCHANGED <<disk, nfaults, rr, cc, ans, th>>

\* One call of process_store_pdf, from its first statement to its return, its
\* exception or the death of the process.
Ingest ==
    /\ alive
    /\ \E filename \in FilenameSet, pages \in Docs, fault \in Faults :
       \E emptyRaises \in IF NChunks(pages) = 0 THEN BOOLEAN ELSE {FALSE} :
        /\ Interrupts(fault) => nfaults < MaxFaults
        /\ Len(index) + NChunks(pages) <= MaxStore
        /\ nfaults' = IF Interrupts(fault) THEN nfaults + 1 ELSE nfaults
        /\ \E r \in {process_store_pdf(Mem, filename, pages, fault, emptyRaises)} :
            /\ alive' = (r.outcome /= "crash")
            /\ index' = IF r.outcome = "crash" THEN <<>> ELSE r.st.index
            /\ metadata' = IF r.outcome = "crash" THEN <<>> ELSE r.st.metadata
            /\ content' = IF r.outcome = "crash" THEN <<>> ELSE r.st.content
            /\ disk' = r.st.disk
            /\ last' = Call("process_store_pdf", DocKind(pages), fault,
                            filename \in {metadata[i].source : i \in 1..Len(metadata)},
                            <<>>, 0, r)
    /\ UNCHANGED <<rr, cc, ans, th>>

\* One call of search.
Search ==
    /\ alive
    /\ \E query \in Queries, k \in 1..MaxK :
        \E r \in {search(Mem, query, k)} :
            /\ index' = r.st.index
            /\ metadata' = r.st.metadata
            /\ content' = r.st.content
            /\ disk' = r.st.disk
            /\ last' = Call("search", "", NoFault, FALSE, query, k, r)
    /\ UNCHANGED <<alive, nfaults, rr, cc, ans, th>>

Next == Construct \/ Ingest \/ Search

Spec == Init /\ [][Next]_vars

(***************************************************************************)
(* ContextService.reRanker(rewritten_query, chunks_list, k): the contents  *)
(* of the chunks and top_n = k are sent to the reranking service, and the  *)
(* chunks are rearranged by the indices it returns.  chunks_list[index] is *)
(* Python indexing: a negative index counts from the end of the list, and  *)
(* an index outside [-N, N) raises IndexError.                             *)
(***************************************************************************)
rerank_request(chunks_list, k) ==
    [documents |-> [i \in 1..Len(chunks_list) |-> chunks_list[i].metadata.content],
     top_n |-> k]

InList(list, ix) == -Len(list) <= ix /\ ix < Len(list)

GetItem(list, ix) == IF ix >= 0 THEN list[ix + 1] ELSE list[Len(list) + ix + 1]

reRanker(chunks_list, k, indices) ==
    IF \E i \in 1..Len(indices) : ~InList(chunks_list, indices[i])
    THEN [outcome |-> StateError, results |-> <<>>]
    ELSE [outcome |-> "ok",
          results |-> [i \in 1..Len(indices) |-> GetItem(chunks_list, indices[i])]]

\* The results a search may hand to the reranker: distinct chunks of one
\* document, best first.
Item(n) ==
    [metadata |-> [source |-> "a.pdf", page_number |-> n, content |-> PageText(700 + n)],
     similarity |-> 1]

RECURSIVE Arrangements(_, _)
Arrangements(items, n) ==
    IF n = 0 THEN {<<>>}
    ELSE {Append(l, x) : l \in Arrangements(items, n - 1), x \in items}

ChunkLists ==
    {l \in UNION {Arrangements({Item(n) : n \in 1..MaxResults}, m) : m \in 0..MaxResults} :
        \A i, j \in 1..Len(l) : i /= j => l[i] /= l[j]}

\* What the reranking service may answer for N documents and top_n = k: at
\* most k indices and at most N of them, each any integer from -N to N.
Responses(N, k) ==
    UNION {[1..m -> (-N)..N] : m \in 0..(IF k < N THEN k ELSE N)}

\* A reRanker call about to be made: its arguments and the service's answer.
InitContext ==
    /\ alive = TRUE
    /\ index = initialise_empty_index
    /\ metadata = <<>>
    /\ content = <<>>
    /\ disk = EmptyDisk
    /\ last = Call("__init__", "", NoFault, FALSE, <<>>, 0,
                   Result(NoMem, "ok", {}, None))
    /\ nfaults = 0
    /\ cc = NoCompress
    /\ ans = NoAnswer
    /\ th = NoThreads
    /\ \E chunks_list \in ChunkLists, k \in 0..MaxTopN :
       \E response \in Responses(Len(chunks_list), k) :
            rr = [chunks_list |-> chunks_list, k |-> k, response |-> response,
                  request |-> [documents |-> <<>>, top_n |-> 0],
                  outcome |-> "pending", results |-> <<>>]

ReRank ==
    /\ rr.outcome = "pending"
    /\ \E r \in {reRanker(rr.chunks_list, rr.k, rr.response)} :
        rr' = [rr EXCEPT !.request = rerank_request(rr.chunks_list, rr.k),
                         !.outcome = r.outcome,
                         !.results = r.results]
    /\ UNCHANGED <<alive, index, metadata, content, disk, last, nfaults, cc, ans, th>>

NextContext == ReRank

SpecContext == InitContext /\ [][NextContext]_vars

(***************************************************************************)
(* process_store_pdf calls running in threads on one instance.  The class  *)
(* takes no lock, so the calls interleave statement by statement: the      *)
(* duplicate check with the preparation of the batch (lines 74-100, which  *)
(* touch only locals), index.add (103), metadata.extend (104),             *)
(* content.extend (105) and the three writes of _save_data (112-116).      *)
(***************************************************************************)
Threads == {1, 2}

\* The documents the threads ingest: one chunk, or two chunks and an empty page.
ConcDocs == {<<700>>, <<1500, 0>>}

Batch(filename, pages) ==
    LET chunks == split_documents(all_pages_of(filename, pages)) IN
    [chunk_text |-> [i \in 1..Len(chunks) |-> chunks[i].page_content],
     chunk_metadata |-> [i \in 1..Len(chunks) |-> chunks[i].metadata],
     embeddings |-> normalize_L2(encode([i \in 1..Len(chunks) |-> chunks[i].page_content]))]

BatchOf(t) == Batch(th[t].filename, th[t].pages)

index_add(st, b) == [st EXCEPT !.index = @ \o b.embeddings]

metadata_extend(st, b) == [st EXCEPT !.metadata = @ \o b.chunk_metadata]

content_extend(st, b) == [st EXCEPT !.content = @ \o b.chunk_text]

\* The n-th write of _save_data, of the stores as they are at that moment.
save_write(st, n) ==
    CASE n = 1 -> [st EXCEPT !.disk.index = File(write_index(st.index))]
      [] n = 2 -> [st EXCEPT !.disk.content = File(dump_content(st.content))]
      [] n = 3 -> [st EXCEPT !.disk.metadata = File(dump_metadata(st.metadata))]

\* The statement a thread runs next, and where it stands after it.
NextPc(pc, dup) ==
    CASE pc = "start" -> IF dup THEN "rejected" ELSE "add"
      [] pc = "add" -> "meta"
      [] pc = "meta" -> "content"
      [] pc = "content" -> "write_index"
      [] pc = "write_index" -> "write_content"
      [] pc = "write_content" -> "write_meta"
      [] pc = "write_meta" -> "done"

Statement(pc, st, b) ==
    CASE pc = "start" -> st
      [] pc = "add" -> index_add(st, b)
      [] pc = "meta" -> metadata_extend(st, b)
      [] pc = "content" -> content_extend(st, b)
      [] pc = "write_index" -> save_write(st, 1)
      [] pc = "write_content" -> save_write(st, 2)
      [] pc = "write_meta" -> save_write(st, 3)

Running(t) == th[t].pc \notin {"done", "rejected"}

\* Two calls are started on a fresh instance, each with its file.
InitConc ==
    /\ alive = TRUE
    /\ index = initialise_empty_index
    /\ metadata = <<>>
    /\ content = <<>>
    /\ disk = EmptyDisk
    /\ last = Call("__init__", "", NoFault, FALSE, <<>>, 0,
                   Result(NoMem, "ok", {}, None))
    /\ nfaults = 0
    /\ rr = NoRerank
    /\ cc = NoCompress
    /\ ans = NoAnswer
    /\ th \in [Threads -> [pc : {"start"}, filename : FilenameSet, pages : ConcDocs]]

\* Thread t runs its next statement.
ThreadStep(t) ==
    /\ Running(t)
    /\ \E st \in {Statement(th[t].pc, Mem, BatchOf(t))} :
        /\ index' = st.index
        /\ metadata' = st.metadata
        /\ content' = st.content
        /\ disk' = st.disk
    /\ th' = [th EXCEPT ![t].pc = NextPc(@, already_processed(metadata, th[t].filename))]
    /\ UNCHANGED <<alive, last, nfaults, rr, cc, ans>>

\* One search runs while the calls are under way.
ConcSearch ==
    /\ last.op /= "search"
    /\ \E t \in Threads : Running(t)
    /\ \E query \in Queries, k \in 1..MaxK :
        \E r \in {search(Mem, query, k)} :
            last' = Call("search", "", NoFault, FALSE, query, k, r)
    /\ UNCHANGED <<alive, index, metadata, content, disk, nfaults, rr, cc, ans, th>>

NextConc == (\E t \in Threads : ThreadStep(t)) \/ ConcSearch

SpecConc == InitConc /\ [][NextConc]_vars


(***************************************************************************)
(* ContextService.chunk_compressor(chunks, query).  A Python string is a   *)
(* sequence of tokens; a token is a character, Char(c), or the text of a   *)
(* stored chunk.  A content value carries its Python type: a str, a list   *)
(* of str, or an int (a value that is neither).  `outputs` is what the     *)
(* compression service returns for the documents: the page_content of each *)
(* compressed document, in the order returned.                             *)
(***************************************************************************)
Char(c) == <<0, c, c>>

Newline == Char(10)

Space == Char(32)

PyStr(s) == [type |-> "str", val |-> s]

PyList(l) == [type |-> "list", val |-> l]

PyInt(n) == [type |-> "int", val |-> n]

\* str(n) for n >= 0: its decimal digits.
RECURSIVE str(_)
str(n) == IF n < 10 THEN <<Char(48 + n)>> ELSE str(n \div 10) \o <<Char(48 + (n % 10))>>

\* sep.join(parts)
RECURSIVE join(_, _)
join(sep, parts) ==
    IF Len(parts) = 0 THEN <<>>
    ELSE IF Len(parts) = 1 THEN parts[1]
    ELSE parts[1] \o sep \o join(sep, Tail(parts))

\* lines 56-59: a list is joined with one space, a non-string is stringified.
normalise_content(c) ==
    IF c.type = "list" THEN join(<<Space>>, c.val)
    ELSE IF c.type /= "str" THEN str(c.val)
    ELSE c.val

\* A compressor that separates the outputs by a single line break.
chunk_compressor_single_break(chunks, query, outputs) ==
    [request |-> [documents |-> [i \in 1..Len(chunks) |->
                        [page_content |-> normalise_content(chunks[i].metadata.content),
                         metadata |-> chunks[i].metadata]],
                  query |-> query],
     outcome |-> "ok",
     context |-> join(<<Newline>>, outputs)]

chunk_compressor(chunks, query, outputs) ==
    [request |-> [documents |-> [i \in 1..Len(chunks) |->
                        [page_content |-> normalise_content(chunks[i].metadata.content),
                         metadata |-> chunks[i].metadata]],
                  query |-> query],
     outcome |-> "ok",
     context |-> join(<<Newline, Newline>>, outputs)]

MaxChunks == 2
MaxOutputs == 2

\* The contents a chunk may carry and the texts the service may return.
Contents ==
    {PyStr(<<>>), PyStr(<<Char(97)>>), PyStr(<<Char(97), Newline, Char(98)>>),
     PyList(<<>>), PyList(<<<<Char(97)>>, <<Char(98), Char(99)>>>>),
     PyList(<<<<>>, <<Char(97)>>>>), PyInt(7), PyInt(42)}

Texts == {<<>>, <<Char(97)>>, <<Char(98), Newline>>, <<Char(99), Char(100)>>}

Chunk(n, c) ==
    [metadata |-> [source |-> "a.pdf", page_number |-> n, content |-> c],
     similarity |-> 1]

RECURSIVE Lists(_, _)
Lists(items, n) ==
    IF n = 0 THEN {<<>>}
    ELSE Lists(items, n - 1) \cup
         {Append(l, x) : l \in {m \in Lists(items, n - 1) : Len(m) = n - 1}, x \in items}

\* A chunk_compressor call about to be made.
InitCompress ==
    /\ alive = TRUE
    /\ index = initialise_empty_index
    /\ metadata = <<>>
    /\ content = <<>>
    /\ disk = EmptyDisk
    /\ last = Call("__init__", "", NoFault, FALSE, <<>>, 0,
                   Result(NoMem, "ok", {}, None))
    /\ nfaults = 0
    /\ rr = NoRerank
    /\ ans = NoAnswer
    /\ th = NoThreads
    /\ \E cs \in Lists(Contents, MaxChunks), outputs \in Lists(Texts, MaxOutputs) :
            cc = [chunks |-> [i \in 1..Len(cs) |-> Chunk(i, cs[i])],
                  outputs |-> outputs,
                  request |-> [documents |-> <<>>, query |-> <<>>],
                  outcome |-> "pending", context |-> <<>>]

Compress ==
    /\ cc.outcome = "pending"
    /\ \E query \in Queries :
       \E r \in {chunk_compressor(cc.chunks, query, cc.outputs)} :
        cc' = [cc EXCEPT !.request = r.request,
                         !.outcome = r.outcome,
                         !.context = r.context]
    /\ UNCHANGED <<alive, index, metadata, content, disk, last, nfaults, rr, ans, th>>

NextCompress == Compress

SpecCompress == InitCompress /\ [][NextCompress]_vars


(***************************************************************************)
(* RAGService.answer(query).  `svc` is what the external services answer   *)
(* during the call: the rewriter's text, whether the reranking service     *)
(* raises and the indices it returns otherwise, which documents the        *)
(* compression service retains, and the generation service's text.  The    *)
(* record returned says which stages were invoked, with which arguments,   *)
(* and how the call ended.                                                 *)
(***************************************************************************)
AnswerK == 3

TypeError == "TypeError"
ExternalServiceError == "ExternalServiceError"

\* The Python value of a search result: its content is a str.
PyChunk(item) ==
    [metadata |-> [source |-> item.metadata.source,
                   page_number |-> item.metadata.page_number,
                   content |-> PyStr(<<item.metadata.content>>)],
     similarity |-> item.similarity]

\* compress_documents: the documents the service retains, as they are.
Retained(docs, keep) ==
    CASE keep = "all" -> [i \in 1..Len(docs) |-> docs[i].page_content]
      [] keep = "first" -> IF Len(docs) = 0 THEN <<>> ELSE <<docs[1].page_content>>
      [] keep = "none" -> <<>>

\* The literal lines of the prompt (lines 48-56).
UseLine == <<Char(85)>>
ContextLabel == <<Char(67)>>
QuestionLabel == <<Char(81)>>

\* A prompt that leaves the question out.
build_prompt_without_query(context, rewritten_query) ==
    <<Newline>> \o UseLine \o <<Newline, Newline>>
        \o ContextLabel \o <<Newline>> \o context \o <<Newline, Newline>>
        \o QuestionLabel \o <<Newline>> \o <<Newline>>

build_prompt(context, rewritten_query) ==
    <<Newline>> \o UseLine \o <<Newline, Newline>>
        \o ContextLabel \o <<Newline>> \o context \o <<Newline, Newline>>
        \o QuestionLabel \o <<Newline>> \o <<rewritten_query>> \o <<Newline>>

answer(st, query, svc) ==
    LET rewritten_query == svc.rewritten
        sr == search(st, rewritten_query, AnswerK)
        retrieved_chunks == sr.ret.items
        num_chunks == Len(retrieved_chunks)
        rk == reRanker(retrieved_chunks, num_chunks, svc.response)
        reranked_chunks == rk.results
        chunks == [i \in 1..Len(reranked_chunks) |-> PyChunk(reranked_chunks[i])]
        docs == chunk_compressor(chunks, rewritten_query, <<>>).request.documents
        cr == chunk_compressor(chunks, rewritten_query, Retained(docs, svc.keep))
        prompt == build_prompt(cr.context, rewritten_query)
        searched == [query |-> query, rewritten |-> rewritten_query,
                     outcome |-> "none", trace |-> <<"rewrite", "search">>,
                     search |-> [query |-> rewritten_query, k |-> AnswerK],
                     retrieved |-> sr.ret,
                     rerank |-> [query |-> <<>>, chunks_list |-> <<>>, k |-> 0],
                     reranked |-> <<>>,
                     compress |-> [chunks |-> <<>>, query |-> <<>>],
                     context |-> <<>>, prompt |-> <<>>, ret |-> <<>>]
        reranking == [searched EXCEPT
                        !.trace = @ \o <<"rerank">>,
                        !.rerank = [query |-> rewritten_query,
                                    chunks_list |-> retrieved_chunks,
                                    k |-> num_chunks]]
    IN
    IF sr.outcome /= "ok"
    THEN [st |-> sr.st, call |-> [searched EXCEPT !.outcome = sr.outcome]]
    ELSE IF sr.ret.type = "dict"
    THEN [st |-> sr.st, call |-> [searched EXCEPT !.outcome = TypeError]]
    ELSE IF svc.rerank_raises
    THEN [st |-> sr.st, call |-> [reranking EXCEPT !.outcome = ExternalServiceError]]
    ELSE IF rk.outcome /= "ok"
    THEN [st |-> sr.st, call |-> [reranking EXCEPT !.outcome = rk.outcome]]
    ELSE IF Len(reranked_chunks) = 0
    THEN [st |-> sr.st, call |-> [reranking EXCEPT !.outcome = StateError]]
    ELSE [st |-> sr.st,
          call |-> [reranking EXCEPT
                        !.outcome = "ok",
                        !.trace = @ \o <<"compress", "generate">>,
                        !.reranked = reranked_chunks,
                        !.compress = [chunks |-> chunks, query |-> rewritten_query],
                        !.context = cr.context,
                        !.prompt = prompt,
                        !.ret = svc.generated]]


\* The stores an answer call may find: empty; after one, two or three
\* documents were ingested; and what a new instance loads after an ingest
\* died between the write of the index file and the write of the content file.
Ingested(st, filename, pages) ==
    process_store_pdf(st, filename, pages, NoFault, FALSE).st

AnswerStores ==
    LET empty == Store(initialise_empty_index, <<>>, <<>>, EmptyDisk)
        one == Ingested(empty, "a.pdf", <<700>>)
        three == Ingested(one, "b.pdf", <<1500, 0>>)
        four == Ingested(Ingested(empty, "a.pdf", <<700, 700>>), "b.pdf", <<1500, 0>>)
        died == process_store_pdf(empty, "a.pdf", <<700>>,
                    [at |-> "write_content", how |-> "crash", torn |-> FALSE], FALSE).st
    IN  {empty, one, three, four, load_data(died.disk)}

Services(N) ==
    [rewritten : Queries, rerank_raises : BOOLEAN, response : Responses(N, N),
     keep : {"all", "first", "none"}, generated : {<<Char(65)>>, <<>>}]

\* An instance serving one of the stores, about to answer a query.
InitAnswer ==
    /\ alive = TRUE
    /\ \E st \in AnswerStores :
        /\ index = st.index
        /\ metadata = st.metadata
        /\ content = st.content
        /\ disk = st.disk
    /\ last = Call("__init__", "", NoFault, FALSE, <<>>, 0,
                   Result(NoMem, "ok", {}, None))
    /\ nfaults = 0
    /\ rr = NoRerank
    /\ cc = NoCompress
    /\ ans = NoAnswer
    /\ th = NoThreads

\* One call of answer.
Answer ==
    /\ alive
    /\ ans.outcome = "none"
    /\ \E query \in Queries, rewritten \in Queries :
       \E N \in {Len(search(Mem, rewritten, AnswerK).ret.items)} :
       \E svc \in {s \in Services(N) : s.rewritten = rewritten} :
        /\ \E r \in {answer(Mem, query, svc)} :
            /\ index' = r.st.index
            /\ metadata' = r.st.metadata
            /\ content' = r.st.content
            /\ disk' = r.st.disk
            /\ ans' = r.call
    /\ UNCHANGED <<alive, last, nfaults, rr, cc, th>>

NextAnswer == Answer

SpecAnswer == InitAnswer /\ [][NextAnswer]_vars


(***************************************************************************)
(* Properties.                                                             *)
(***************************************************************************)
Stores == <<index, metadata, content>>

IsIngest(c) == c.op = "process_store_pdf"

\* The three artifacts on disk form one unit: none exists, or all three exist,
\* are readable and hold the same number of entries.
DiskComplete(dk) ==
    \/ ~dk.index.exists /\ ~dk.metadata.exists /\ ~dk.content.exists
    \/ /\ dk.index.exists /\ dk.metadata.exists /\ dk.content.exists
       /\ ~load_raises(dk)
       /\ Len(load_data(dk).index) = Len(load_data(dk).metadata)
       /\ Len(load_data(dk).metadata) = Len(load_data(dk).content)

\* The error kinds the specification names and the code never raises.
EmptyDocumentError == "EmptyDocumentError"
CorruptStateError == "CorruptStateError"

\* C1: in every state of a live instance the index, the metadata array and the
\* content array hold the same number of entries.
AlignmentInvariant ==
    alive => Len(index) = Len(metadata) /\ Len(metadata) = Len(content)

\* C2: a process_store_pdf call whose filename is the source of a stored chunk
\* fails with the duplicate error before any parsing or embedding, and leaves
\* the index, the metadata, the content and the files as they were.
DuplicateRejected ==
    [][(IsIngest(last') /\ last'.dup) =>
            /\ last'.outcome = DuplicateError
            /\ last'.work = {}
            /\ UNCHANGED <<index, metadata, content, disk>>]_vars

DuplicateWitness ==
    /\ IsIngest(last) /\ last.dup /\ last.outcome = DuplicateError
    /\ Len(metadata) >= 2
    /\ metadata[1].source /= metadata[Len(metadata)].source

\* C3: a document of one or more pages, all of them empty, makes
\* process_store_pdf fail with the empty-document error and leaves the index,
\* the metadata and the content unchanged.
EmptyDocumentRejected ==
    [][(IsIngest(last') /\ last'.kind = "only empty pages"
            /\ ~last'.dup /\ ~last'.faulted) =>
            /\ last'.outcome = EmptyDocumentError
            /\ UNCHANGED <<index, metadata, content>>]_vars

\* C4: a process_store_pdf call that fails while parsing, chunking, embedding
\* or normalising leaves the index, the metadata, the content and the files
\* exactly as they were before the call.
FailedIngestLeavesStores ==
    [][(IsIngest(last') /\ last'.outcome \in {ParseError, LibraryError}) =>
            UNCHANGED <<index, metadata, content, disk>>]_vars

FailedIngestWitness ==
    /\ IsIngest(last) /\ last.outcome = LibraryError /\ last.faulted
    /\ last.kind = "text" /\ "encode" \in last.work
    /\ Len(index) > 0

\* C5: after the process dies anywhere in process_store_pdf or _save_data, the
\* files a fresh instance would load form one complete state: all three
\* artifacts readable and of the same length.
CrashLeavesDiskComplete ==
    (IsIngest(last) /\ last.outcome = "crash") => DiskComplete(disk)

\* C6: loading at startup fails with CorruptStateError whenever only some of
\* the three artifacts exist, or one is unreadable, or their entry counts
\* disagree; it never goes on with an empty index or array in place of the
\* missing one.
LoadRejectsPartialState ==
    (last.op = "__init__" /\ ~DiskComplete(disk)) =>
        (~alive /\ last.outcome = CorruptStateError)

\* C7: after a successful process_store_pdf a fresh instance on the same data
\* path loads the same index, metadata and content, in the same order, and so
\* answers every search as this instance does.
RoundTripPersistence ==
    (alive /\ IsIngest(last) /\ last.outcome = "ok") =>
        /\ ~load_raises(disk)
        /\ load_data(disk) = Mem
        /\ \A q \in Queries, k \in 1..MaxK :
                search(load_data(disk), q, k).ret = search(Mem, q, k).ret

RoundTripWitness ==
    /\ alive /\ IsIngest(last) /\ last.outcome = "ok"
    /\ Len(index) >= 2 /\ Len(metadata) >= 2 /\ Len(content) >= 2
    /\ metadata[1].source /= metadata[Len(metadata)].source

\* C8: search on an index without vectors returns the index-empty signal, a
\* dict and not a list, without embedding the query or searching the index;
\* search on an index with at least one vector never returns that signal.
SearchEmptySignal ==
    last.op = "search" =>
        /\ (Len(index) = 0) <=> (last.ret.type = "dict")
        /\ Len(index) = 0 =>
                /\ last.ret.error = IndexEmptyMsg
                /\ last.outcome = "ok"
                /\ last.work = {}
        /\ Len(index) > 0 => last.ret.error /= IndexEmptyMsg

SearchEmptyWitness ==
    /\ last.op = "search" /\ Len(index) = 0 /\ last.ret.type = "dict"
    /\ last.k = MaxK

\* C9: whatever the reranking service answers, reRanker uses only indices in
\* [0, N) of its N input results, and its output is made of distinct elements
\* of the input.
RerankerValidatesIndices ==
    rr.outcome \notin {"none", "pending"} =>
        /\ rr.outcome = "ok" =>
                \A i \in 1..Len(rr.response) :
                    0 <= rr.response[i] /\ rr.response[i] < Len(rr.chunks_list)
        /\ \A i, j \in 1..Len(rr.results) : i /= j => rr.results[i] /= rr.results[j]
        /\ \A i \in 1..Len(rr.results) :
                \E j \in 1..Len(rr.chunks_list) : rr.results[i] = rr.chunks_list[j]

\* C10: the top_n reRanker gives to the reranking service never exceeds the
\* number of documents it sends.
RerankerClampsTopN ==
    rr.outcome \notin {"none", "pending"} =>
        rr.request.top_n <= Len(rr.request.documents)
AllDone == th /= NoThreads /\ \A t \in Threads : th[t].pc = "done"

\* The batch of t1 followed by the batch of t2, in each of the three stores.
BlocksInOrder(t1, t2) ==
    /\ index = BatchOf(t1).embeddings \o BatchOf(t2).embeddings
    /\ metadata = BatchOf(t1).chunk_metadata \o BatchOf(t2).chunk_metadata
    /\ content = BatchOf(t1).chunk_text \o BatchOf(t2).chunk_text

\* C11: when two process_store_pdf calls for different documents have run
\* concurrently, their appends did not interleave: each document's chunks
\* occupy one contiguous block, at the same positions in the index, the
\* metadata and the content.
AppendsSerialized ==
    (AllDone /\ th[1].filename /= th[2].filename) =>
        BlocksInOrder(1, 2) \/ BlocksInOrder(2, 1)

\* Thread t has passed the duplicate check and appends (or has appended).
Appends(t) == th[t].pc \notin {"start", "rejected"}

\* C20: when two process_store_pdf calls with the same filename run
\* concurrently, at most one of them gets past the duplicate check into the
\* append, so the chunks of the source come from a single ingest.
DuplicateCheckAtomic ==
    (th /= NoThreads /\ th[1].filename = th[2].filename) =>
        /\ ~(Appends(1) /\ Appends(2))
        /\ \/ Len(metadata) <= Len(BatchOf(1).chunk_metadata)
           \/ Len(metadata) <= Len(BatchOf(2).chunk_metadata)

Min(a, b) == IF a < b THEN a ELSE b

\* C18: a search that runs while an ingest is under way sees none or all of
\* the batch being appended: the three stores have one length when it runs,
\* it does not fail, and it returns every match the index holds (k of them,
\* or all the stored chunks when there are fewer).
SearchSeesSnapshot ==
    [][(last'.op = "search" /\ last.op /= "search" /\ th /= NoThreads) =>
          /\ Len(index) = Len(metadata) /\ Len(metadata) = Len(content)
          /\ last'.outcome = "ok"
          /\ last'.ret.type = "list" =>
                Len(last'.ret.items) = Min(last'.k, Len(index))]_vars

\* C15: every error raised by process_store_pdf, an error in the persist
\* step included, leaves the in-memory index, metadata and content as they
\* were before the call.
EveryIngestErrorLeavesStores ==
    [][(IsIngest(last') /\ last'.outcome \notin {"ok", "crash"}) =>
            UNCHANGED <<index, metadata, content>>]_vars

IsPrefix(s, t) == Len(s) <= Len(t) /\ SubSeq(t, 1, Len(s)) = s

\* A call that returns (it succeeds or raises) keeps every stored entry where
\* it was.
KeepsEntries ==
    /\ IsPrefix(index, index')
    /\ IsPrefix(metadata, metadata')
    /\ IsPrefix(content, content')

\* C16: the store is append-only: over every process_store_pdf call that
\* returns, each store before the call is a prefix of the store after it, and
\* on success the batch of m chunks lies at positions [n, n+m) of all three
\* stores, n being the count before the call.
AppendOnlySamePositions ==
    [][(IsIngest(last') /\ last'.outcome /= "crash") =>
          /\ KeepsEntries
          /\ last'.outcome = "ok" =>
                LET n == Len(index)
                    m == Len(index') - n
                IN  /\ Len(metadata) = n /\ Len(metadata') = n + m
                    /\ Len(content) = n /\ Len(content') = n + m]_vars

\* The result built from position p (1-based) of the stores.
Joined(p) ==
    [source |-> metadata[p].source, page_number |-> metadata[p].page_number,
     content |-> content[p]]

\* C17: search(query, k) is read-only and stays within bounds: it returns at
\* most k results, each one the metadata of a stored position joined with the
\* content at the same position, and afterwards the index, the metadata and
\* the content are what they were and no stored metadata entry carries a
\* 'content' key.
SearchReadOnlyInBounds ==
    [][last'.op = "search" =>
          /\ UNCHANGED <<index, metadata, content>>
          /\ \A i \in 1..Len(metadata') :
                DOMAIN metadata'[i] = {"source", "page_number"}
          /\ last'.outcome = "ok"
          /\ last'.ret.type \in {"dict", "list"}
          /\ Len(last'.ret.items) <= last'.k
          /\ \A i \in 1..Len(last'.ret.items) :
                \E p \in 1..Len(metadata) :
                    /\ p <= Len(content) /\ p <= Len(index)
                    /\ last'.ret.items[i].metadata = Joined(p)]_vars

SearchReadOnlyWitness ==
    /\ last.op = "search" /\ last.ret.type = "list"
    /\ last.k > Len(index)
    /\ Len(last.ret.items) = Len(index)
    /\ Len(index) >= 1

\* Where part i starts (0-based) in parts joined with a separator of length n.
RECURSIVE Offset(_, _, _)
Offset(parts, n, i) ==
    IF i = 1 THEN 0 ELSE Offset(parts, n, i - 1) + Len(parts[i - 1]) + n

\* s is the parts in order with sep between neighbours and nowhere else.
IsJoined(parts, sep, s) ==
    LET n == Len(parts)
        off(i) == Offset(parts, Len(sep), i)
    IN  /\ Len(s) = IF n = 0 THEN 0 ELSE off(n) + Len(parts[n])
        /\ \A i \in 1..n : SubSeq(s, off(i) + 1, off(i) + Len(parts[i])) = parts[i]
        /\ \A i \in 1..(n - 1) : SubSeq(s, off(i) + Len(parts[i]) + 1, off(i + 1)) = sep

RECURSIVE DecimalValue(_)
DecimalValue(s) ==
    IF Len(s) = 0 THEN 0
    ELSE 10 * DecimalValue(SubSeq(s, 1, Len(s) - 1)) + (s[Len(s)][2] - 48)

\* s is the decimal numeral of n.
IsDecimal(n, s) ==
    /\ Len(s) >= 1
    /\ \A i \in 1..Len(s) : \E d \in 0..9 : s[i] = Char(48 + d)
    /\ Len(s) > 1 => s[1] /= Char(48)
    /\ DecimalValue(s) = n

OccursAt(s, t, i) == i + Len(t) <= Len(s) /\ SubSeq(s, i + 1, i + Len(t)) = t

\* C12: a completed answer call has invoked rewrite, search, rerank, compress
\* and generate once each in that order; search, rerank and compress got the
\* rewritten query, rerank got all the retrieved results with top_n their
\* number, compress got the reranked list, and the prompt holds the
\* compressed context and, after it, the rewritten query.
AnswerStagesInOrder ==
    ans.outcome = "ok" =>
        /\ ans.trace = <<"rewrite", "search", "rerank", "compress", "generate">>
        /\ ans.search.query = ans.rewritten
        /\ ans.rerank.query = ans.rewritten
        /\ ans.compress.query = ans.rewritten
        /\ ans.retrieved.type = "list"
        /\ ans.rerank.chunks_list = ans.retrieved.items
        /\ ans.rerank.k = Len(ans.retrieved.items)
        /\ ans.compress.chunks =
                [i \in 1..Len(ans.reranked) |-> PyChunk(ans.reranked[i])]
        /\ \E i \in 0..Len(ans.prompt) :
                /\ OccursAt(ans.prompt, ans.context, i)
                /\ \E j \in (i + Len(ans.context))..Len(ans.prompt) :
                        OccursAt(ans.prompt, <<ans.rewritten>>, j)

AnswerWitness ==
    /\ ans.outcome = "ok"
    /\ ans.rewritten /= ans.query
    /\ Len(ans.retrieved.items) = AnswerK
    /\ Len(ans.reranked) = 2
    /\ Len(ans.context) > 1

IndexEmptyError == "IndexEmptyError"

\* C13: answer on an empty index ends with the index-empty condition, right
\* after the search: no reranking, compression or generation is invoked and
\* no other error is raised.
AnswerSignalsEmptyIndex ==
    (ans.outcome /= "none" /\ Len(index) = 0) =>
        /\ ans.outcome = IndexEmptyError
        /\ ans.trace = <<"rewrite", "search">>

\* C14: when the search returns an empty list, answer still completes: it
\* reranks and compresses nothing and generates from an empty context (unless
\* a service itself fails).
AnswerCompletesOnNoResults ==
    (/\ ans.outcome \notin {"none", ExternalServiceError}
     /\ ans.retrieved.type = "list" /\ Len(ans.retrieved.items) = 0) =>
        /\ ans.outcome = "ok"
        /\ ans.context = <<>>

====
